---- MODULE Spec2Model ----
(***************************************************************************)
(* Sigma-clipped average combination of a stack of images, as performed by *)
(* the cells of the "Image combination" notebook: the per-pixel median,    *)
(* the MAD estimate of the standard deviation, the exclusion mask and the  *)
(* NaN-masked mean.                                                        *)
(*                                                                         *)
(* Floating point values are modelled as exact rationals extended with     *)
(* NaN, +Inf and -Inf, so that division by a zero scale and the NaN        *)
(* sentinel behave as they do in numpy.                                    *)
(***************************************************************************)
EXTENDS Integers, Sequences, FiniteSets, TLC

\* ------------------------------------------------------------------------
\* Bounds of the model
\* ------------------------------------------------------------------------
\* largest number of images in the stack (n_distributions)
MaxN == 3
\* number of pixels of each image (n_side**2)
NPix == 2
\* the pixel values the images are drawn from: a low value, two adjacent
\* values, and a value exactly ClipSigma scale units above 500 when the
\* other samples are 0 and 500 (7413 = 10 * 1.4826 * 500)
SampleValues == {0, 500, 501, 7913}
\* the values of the pixels after the first: a level and an outlier
OtherValues == {500, 7913}
\* the value of the pixels after the second: the level
LevelValues == {500}
\* the values pixel p is drawn from
PixelValues(p) ==
    IF p = 1 THEN SampleValues ELSE IF p = 2 THEN OtherValues ELSE LevelValues

\* ------------------------------------------------------------------------
\* Program constants
\* ------------------------------------------------------------------------
\* the clipping threshold: "> 10"
ClipSigma == 10
\* the factor 1.4826 between the MAD and the standard deviation, as a fraction
MadScaleNum == 7413
MadScaleDen == 5000

\* ------------------------------------------------------------------------
\* Floating point values: [k, n, d] is n/d when k = "fin" (d > 0, lowest
\* terms), and NaN, +Inf or -Inf otherwise.
\* ------------------------------------------------------------------------
NaN == [k |-> "nan", n |-> 0, d |-> 1]
PInf == [k |-> "pinf", n |-> 0, d |-> 1]
NInf == [k |-> "ninf", n |-> 0, d |-> 1]

IsNaN(a) == a.k = "nan"
IsFinite(a) == a.k = "fin"

Abs(i) == IF i < 0 THEN -i ELSE i

RECURSIVE GCD(_, _)
GCD(a, b) == IF b = 0 THEN a ELSE GCD(b, a % b)

\* the finite value n/d, d > 0, in lowest terms
Fin(n, d) ==
    LET g == GCD(Abs(n), d)
    IN  [k |-> "fin", n |-> n \div g, d |-> d \div g]

\* -1, 0, 1: the sign of a value that is not NaN
Sign(a) ==
    CASE a.k = "pinf" -> 1
      [] a.k = "ninf" -> -1
      [] OTHER -> IF a.n > 0 THEN 1 ELSE IF a.n < 0 THEN -1 ELSE 0

FNeg(a) ==
    CASE a.k = "nan" -> NaN
      [] a.k = "pinf" -> NInf
      [] a.k = "ninf" -> PInf
      [] OTHER -> Fin(-a.n, a.d)

FAdd(a, b) ==
    CASE IsNaN(a) \/ IsNaN(b) -> NaN
      [] IsFinite(a) /\ IsFinite(b) -> Fin(a.n * b.d + b.n * a.d, a.d * b.d)
      [] IsFinite(a) -> b
      [] IsFinite(b) -> a
      [] OTHER -> IF a.k = b.k THEN a ELSE NaN

FSub(a, b) == FAdd(a, FNeg(b))

FAbs(a) ==
    CASE a.k = "nan" -> NaN
      [] a.k \in {"pinf", "ninf"} -> PInf
      [] OTHER -> Fin(Abs(a.n), a.d)

\* a * (num/den) for a positive fraction num/den
FScale(a, num, den) ==
    IF IsFinite(a) THEN Fin(a.n * num, a.d * den) ELSE a

\* a / c for a positive integer count c
FDivInt(a, c) ==
    IF IsFinite(a) THEN Fin(a.n, a.d * c) ELSE a

\* a division that yields NaN for every zero divisor
FDivGuarded(a, b) ==
    CASE IsNaN(a) \/ IsNaN(b) -> NaN
      [] IsFinite(a) /\ IsFinite(b) ->
            IF b.n = 0
            THEN NaN
            ELSE IF b.n > 0
                 THEN Fin(a.n * b.d, a.d * b.n)
                 ELSE Fin(-(a.n * b.d), a.d * (-b.n))
      [] IsFinite(a) -> Fin(0, 1)
      [] IsFinite(b) ->
            IF (Sign(a) >= 0) = (b.n >= 0) THEN PInf ELSE NInf
      [] OTHER -> NaN

\* IEEE division as numpy performs it: x/0 is +-Inf, 0/0 is NaN (a warning,
\* not an exception)
FDiv(a, b) ==
    CASE IsNaN(a) \/ IsNaN(b) -> NaN
      [] IsFinite(a) /\ IsFinite(b) ->
            IF b.n = 0
            THEN IF a.n > 0 THEN PInf ELSE IF a.n < 0 THEN NInf ELSE NaN
            ELSE IF b.n > 0
                 THEN Fin(a.n * b.d, a.d * b.n)
                 ELSE Fin(-(a.n * b.d), a.d * (-b.n))
      [] IsFinite(a) -> Fin(0, 1)
      [] IsFinite(b) ->
            IF (Sign(a) >= 0) = (b.n >= 0) THEN PInf ELSE NInf
      [] OTHER -> NaN

\* -Inf below every finite value, +Inf above
Rank(a) == CASE a.k = "ninf" -> -1 [] a.k = "pinf" -> 1 [] OTHER -> 0

\* a < b; every comparison with NaN is false
FLt(a, b) ==
    CASE IsNaN(a) \/ IsNaN(b) -> FALSE
      [] IsFinite(a) /\ IsFinite(b) -> a.n * b.d < b.n * a.d
      [] OTHER -> Rank(a) < Rank(b)

\* a comparison that holds of NaN
FGtIntNaN(a, c) ==
    CASE a.k = "nan" -> TRUE
      [] a.k = "pinf" -> TRUE
      [] a.k = "ninf" -> FALSE
      [] OTHER -> \/ a.n \div a.d > c
                  \/ (a.n \div a.d = c /\ a.n % a.d # 0)

\* a > c for an integer c; every comparison with NaN is false
FGtInt(a, c) ==
    CASE a.k = "nan" -> FALSE
      [] a.k = "pinf" -> TRUE
      [] a.k = "ninf" -> FALSE
      [] OTHER -> \/ a.n \div a.d > c
                  \/ (a.n \div a.d = c /\ a.n % a.d # 0)

\* ------------------------------------------------------------------------
\* numpy / astropy array operations, along axis 0 of an (N, NPix) array
\* ------------------------------------------------------------------------
\* the N samples of pixel p
Col(b, p) == [i \in 1..Len(b) |-> b[i][p]]

RECURSIVE SumSeq(_)
SumSeq(s) == IF Len(s) = 0 THEN Fin(0, 1) ELSE FAdd(Head(s), SumSeq(Tail(s)))

\* a median that takes the upper of the two middle samples of an even column
np_median_upper(c) ==
    LET len == Len(c)
        s == SortSeq(c, LAMBDA a, b : FLt(a, b))
    IN  IF len = 0 \/ \E i \in 1..len : IsNaN(c[i])
        THEN NaN
        ELSE s[(len \div 2) + 1]

\* np.median of one column: NaN for an empty column or one holding a NaN,
\* else the middle of the sorted samples, or the mean of the two middle ones
np_median(c) ==
    LET len == Len(c)
        s == SortSeq(c, LAMBDA a, b : FLt(a, b))
    IN  IF len = 0 \/ \E i \in 1..len : IsNaN(c[i])
        THEN NaN
        ELSE IF len % 2 = 1
             THEN s[(len + 1) \div 2]
             ELSE FDivInt(FAdd(s[len \div 2], s[(len \div 2) + 1]), 2)

\* np.average of one column
np_average(c) ==
    IF Len(c) = 0 THEN NaN ELSE FDivInt(SumSeq(c), Len(c))

\* the mean, instead of the median, of the absolute deviations, times 1.4826
mad_std_mean(c) ==
    LET m == np_median(c)
        dev == [i \in 1..Len(c) |-> FAbs(FSub(c[i], m))]
    IN  FScale(np_average(dev), MadScaleNum, MadScaleDen)

\* astropy.stats.mad_std of one column: the median of the absolute
\* deviations from the median, times 1.4826
mad_std(c) ==
    LET m == np_median(c)
        dev == [i \in 1..Len(c) |-> FAbs(FSub(c[i], m))]
    IN  FScale(np_median(dev), MadScaleNum, MadScaleDen)

\* np.mean, which lets NaN through
np_mean_plain(c) ==
    IF Len(c) = 0 THEN NaN ELSE FDivInt(SumSeq(c), Len(c))

\* a mean that counts the NaN entries in the divisor
np_nanmean_all_counted(c) ==
    LET kept == SelectSeq(c, LAMBDA a : ~IsNaN(a))
    IN  IF Len(kept) = 0 THEN NaN ELSE FDivInt(SumSeq(kept), Len(c))

\* np.nanmean of one column: the mean of the entries that are not NaN, NaN
\* when there is none
np_nanmean(c) ==
    LET kept == SelectSeq(c, LAMBDA a : ~IsNaN(a))
    IN  IF Len(kept) = 0 THEN NaN ELSE FDivInt(SumSeq(kept), Len(kept))

\* a mean taken along axis 1: one value per image
nanmean_axis1(b) == [i \in 1..Len(b) |-> np_nanmean(b[i])]

\* np.nanmean(b, axis=0): one value per pixel
nanmean_axis0(b) == [p \in 1..NPix |-> np_nanmean(Col(b, p))]

\* the index pairs of an (N, NPix) array in row-major order
Positions(b) ==
    [j \in 1..(Len(b) * NPix) |-> <<((j - 1) \div NPix) + 1, ((j - 1) % NPix) + 1>>]

\* the positions where the mask is true, in row-major order
MaskPositions(b, mask) ==
    SelectSeq(Positions(b), LAMBDA q : mask[q[1]][q[2]])

\* b[mask]: a copy of the masked entries, in row-major order
BoolIndex(b, mask) ==
    LET pos == MaskPositions(b, mask)
    IN  [j \in 1..Len(pos) |-> b[pos[j][1]][pos[j][2]]]

\* b[mask] = v for a scalar v
BoolAssignScalar(b, mask, v) ==
    [i \in 1..Len(b) |-> [p \in 1..NPix |-> IF mask[i][p] THEN v ELSE b[i][p]]]

\* an assignment that leaves the array as it is
BoolAssignSeqSkipped(b, mask, vals) == b

\* b[mask] = vals for a sequence vals with one value per masked entry
BoolAssignSeq(b, mask, vals) ==
    LET pos == MaskPositions(b, mask)
        at(i, p) == CHOOSE j \in 1..Len(pos) : pos[j] = <<i, p>>
    IN  [i \in 1..Len(b) |->
            [p \in 1..NPix |-> IF mask[i][p] THEN vals[at(i, p)] ELSE b[i][p]]]

\* ------------------------------------------------------------------------
\* State of the notebook
\* ------------------------------------------------------------------------
VARIABLES
    bits,             \* the (N, NPix) array of the images being combined
    bits_in,          \* the content of bits when the combining cells start
    average,          \* np.average(bits, axis=0)
    median,           \* np.median(bits, axis=0)
    mad_sigma,        \* mad_std(bits, axis=0)
    exclude,          \* the (N, NPix) boolean exclusion mask
    original_values,  \* the samples overwritten with NaN
    clip_combine,     \* the clipped average
    pc                \* the next cell to run

combineVars == <<bits, bits_in, average, median, mad_sigma, exclude,
                 original_values, clip_combine, pc>>

\* one call of find_nearest_dark_exposure
VARIABLES
    image,                \* image.header['exptime'] of the image passed
    dark_exposure_times,  \* list(dark_exposure_times)
    tolerance,            \* the tolerance passed, or None
    result                \* what the call returned or raised

findVars == <<image, dark_exposure_times, tolerance, result>>

\* Example 1 of the notebook that calibrates the flats
VARIABLES
    combined_dark_files,    \* exposure times of the combined darks on disk
    flat_files,             \* exposure times of the raw flats, by file
    actual_exposure_times,  \* the set the check cell builds
    a_flat,                 \* the first flat
    a_flat_reduced,         \* the first flat, as calibrated so far
    ccd,                    \* the flat the loop is calibrating
    file_name,              \* its file, as an index into flat_files
    closest_dark,           \* what find_nearest_dark_exposure returned
    reduced_files,          \* the calibrated flats written to reduced_path
    cell,                   \* the cell, or the statement of the loop, to run
    raised                  \* the exception that stopped the notebook

example1Vars == <<combined_dark_files, flat_files, actual_exposure_times,
                  a_flat, a_flat_reduced, ccd, file_name, closest_dark,
                  reduced_files, cell, raised>>

\* Example 2 of the same notebook, which assigns the names of Example 1 again
VARIABLES
    bias_files,     \* number of combined bias files on disk
    combined_bias   \* the combined bias read from disk

example2Vars == <<bias_files, combined_bias>>

\* the cells that trim one bias image in two ways
VARIABLES
    first_bias,           \* the image, as rows of pixels
    fits_section,         \* the FITS section passed as fits_section
    trimmed_bias_fits,    \* the image trimmed with the FITS section
    trimmed_bias_python,  \* the image trimmed with the Python slice
    allclose              \* the outcome of np.testing.assert_allclose

trimVars == <<first_bias, fits_section, trimmed_bias_fits,
              trimmed_bias_python, allclose>>

\* the cell that sets up the random number generator
VARIABLES
    environ,      \* the value of GUIDE_RANDOM_SEED in the environment
    seed,         \* what os.getenv returned
    noise_rng,    \* the generator
    setup_cell    \* whether the cell has run, and the exception it raised

seedVars == <<environ, seed, noise_rng, setup_cell>>

\* the combination carried out tile by tile
VARIABLES
    tiles,     \* the partition of the pixels into tiles
    task,      \* for each tile, the names its task has assigned
    output     \* the gathered result

tileVars == <<tiles, task, output>>

vars == <<combineVars, findVars, example1Vars, example2Vars, trimVars, seedVars, tileVars>>

\* what the cells that combine images, a call of find_nearest_dark_exposure
\* and the cells of Example 1 leave alone
notCombineVars == <<findVars, example1Vars, example2Vars, trimVars, seedVars, tileVars>>
notFindVars == <<combineVars, example1Vars, example2Vars, trimVars, seedVars, tileVars>>
notExample1Vars == <<combineVars, findVars, example2Vars, trimVars, seedVars, tileVars>>
notExample2Vars == <<combineVars, findVars, trimVars, seedVars, tileVars>>
notTrimVars == <<combineVars, findVars, example1Vars, example2Vars, seedVars, tileVars>>
notSeedVars == <<findVars, example1Vars, example2Vars, trimVars, tileVars>>
notTileVars == <<findVars, example1Vars, example2Vars, trimVars, seedVars>>

\* a name not yet assigned
Unset == <<>>

\* the cells that combine images are not run
CombineIdle ==
    /\ bits = Unset
    /\ bits_in = Unset
    /\ average = Unset
    /\ median = Unset
    /\ mad_sigma = Unset
    /\ exclude = Unset
    /\ original_values = Unset
    /\ clip_combine = Unset
    /\ pc = "idle"

\* find_nearest_dark_exposure is not called
FindIdle ==
    /\ image = Unset
    /\ dark_exposure_times = Unset
    /\ tolerance = Unset
    /\ result = Unset

\* Example 1 is not run
Example1Idle ==
    /\ combined_dark_files = Unset
    /\ flat_files = Unset
    /\ actual_exposure_times = Unset
    /\ a_flat = Unset
    /\ a_flat_reduced = Unset
    /\ ccd = Unset
    /\ file_name = 0
    /\ closest_dark = Unset
    /\ reduced_files = {}
    /\ cell = "idle"
    /\ raised = "none"

\* no combined bias is read
Example2Idle ==
    /\ bias_files = 0
    /\ combined_bias = Unset

\* no image is trimmed
TrimIdle ==
    /\ first_bias = Unset
    /\ fits_section = Unset
    /\ trimmed_bias_fits = Unset
    /\ trimmed_bias_python = Unset
    /\ allclose = "idle"

\* the generator is not set up
SeedIdle ==
    /\ environ = Unset
    /\ seed = Unset
    /\ noise_rng = Unset
    /\ setup_cell = "idle"

\* no tile is processed
TileIdle ==
    /\ tiles = {}
    /\ task = Unset
    /\ output = Unset

\* only the cells that combine images run, only find_nearest_dark_exposure
\* is called, only the cells that calibrate flats run
CombineOnly == FindIdle /\ Example1Idle /\ Example2Idle /\ TrimIdle /\ SeedIdle /\ TileIdle
FindOnly == CombineIdle /\ Example1Idle /\ Example2Idle /\ TrimIdle /\ SeedIdle /\ TileIdle
FlatsOnly == CombineIdle /\ FindIdle /\ TrimIdle /\ SeedIdle /\ TileIdle
TrimOnly == CombineIdle /\ FindIdle /\ Example1Idle /\ Example2Idle /\ SeedIdle /\ TileIdle
SeedOnly == FindIdle /\ Example1Idle /\ Example2Idle /\ TrimIdle /\ TileIdle
TilesOnly == FindIdle /\ Example1Idle /\ Example2Idle /\ TrimIdle /\ SeedIdle

\* the stacks of N images of NPix pixels
Image ==
    {img \in [1..NPix -> {Fin(v, 1) : v \in SampleValues}] :
        \A p \in 1..NPix : img[p].n \in PixelValues(p)}
Stacks(N) == [1..N -> Image]

\* The state in which the cells that combine the images with their outliers
\* start: bits is any stack of 0..MaxN images. average and median are
\* overwritten by the first of these cells before they are read, and are
\* modelled as unset, like the names the later cells assign.
Init ==
    /\ bits \in UNION {Stacks(N) : N \in 0..MaxN}
    /\ bits_in = bits
    /\ average = Unset
    /\ median = Unset
    /\ mad_sigma = Unset
    /\ exclude = Unset
    /\ original_values = Unset
    /\ clip_combine = Unset
    /\ pc = "combine"
    /\ CombineOnly

\* average = np.average(bits, axis=0); median = np.median(bits, axis=0)
Combine ==
    /\ pc = "combine"
    /\ average' = [p \in 1..NPix |-> np_average(Col(bits, p))]
    /\ median' = [p \in 1..NPix |-> np_median(Col(bits, p))]
    /\ pc' = "mad_sigma"
    /\ UNCHANGED <<bits, bits_in, mad_sigma, exclude, original_values,
                   clip_combine>>
    /\ UNCHANGED notCombineVars

\* mad_sigma = mad_std(bits, axis=0)
MadSigma ==
    /\ pc = "mad_sigma"
    /\ mad_sigma' = [p \in 1..NPix |-> mad_std(Col(bits, p))]
    /\ pc' = "exclude"
    /\ UNCHANGED <<bits, bits_in, average, median, exclude, original_values,
                   clip_combine>>
    /\ UNCHANGED notCombineVars

\* a two-sided test, and one that is not strict
Excluded2Sided(x, m, s, c) == FGtInt(FAbs(FDiv(FSub(x, m), s)), c)

ExcludedNotStrict(x, m, s, c) ==
    LET q == FDiv(FSub(x, m), s)
    IN  FGtInt(q, c) \/ q = Fin(c, 1)

\* a test with the comparison turned round
ExcludedFlipped(x, m, s, c) ==
    LET q == FDiv(FSub(x, m), s)
    IN  ~IsNaN(q) /\ ~FGtInt(q, c) /\ q # Fin(c, 1)

\* one entry of (bits - median) / mad_sigma > c; the notebook has c = 10
Excluded(x, m, s, c) == FGtInt(FDiv(FSub(x, m), s), c)

\* exclude = (bits - median) / mad_sigma > 10
Exclude ==
    /\ pc = "exclude"
    /\ exclude' = [i \in 1..Len(bits) |->
                      [p \in 1..NPix |->
                          Excluded(bits[i][p], median[p], mad_sigma[p], ClipSigma)]]
    /\ pc' = "clip_combine"
    /\ UNCHANGED <<bits, bits_in, average, median, mad_sigma,
                   original_values, clip_combine>>
    /\ UNCHANGED notCombineVars

\* a second pass of the clipping: the median is taken again from the samples
\* left after the masking
ClipCombineIterated ==
    /\ pc = "clip_combine"
    /\ LET saved == BoolIndex(bits, exclude)
           masked == BoolAssignScalar(bits, exclude, NaN)
           left(p) == SelectSeq(Col(masked, p), LAMBDA a : ~IsNaN(a))
       IN  /\ original_values' = saved
           /\ clip_combine' = nanmean_axis0(masked)
           /\ bits' = BoolAssignSeq(masked, exclude, saved)
           /\ median' = [p \in 1..NPix |->
                            IF Len(left(p)) = 0 THEN NaN ELSE np_median(left(p))]
    /\ pc' = "done"
    /\ UNCHANGED <<bits_in, average, mad_sigma, exclude>>
    /\ UNCHANGED notCombineVars

\* original_values = bits[exclude]; bits[exclude] = np.nan
\* clip_combine = np.nanmean(bits, axis=0); bits[exclude] = original_values
ClipCombine ==
    /\ pc = "clip_combine"
    /\ LET saved == BoolIndex(bits, exclude)
           masked == BoolAssignScalar(bits, exclude, NaN)
       IN  /\ original_values' = saved
           /\ clip_combine' = nanmean_axis0(masked)
           /\ bits' = BoolAssignSeq(masked, exclude, saved)
    /\ pc' = "done"
    /\ UNCHANGED <<bits_in, average, median, mad_sigma, exclude>>
    /\ UNCHANGED notCombineVars

Next == Combine \/ MadSigma \/ Exclude \/ ClipCombine

Spec == Init /\ [][Next]_vars

\* stacks whose samples may be NaN or +Inf: the float64 array bits can hold
\* them, and no cell tests for them
NonFiniteSampleValues == {Fin(500, 1), Fin(7913, 1), NaN, PInf}
NonFiniteOtherValues == {Fin(500, 1), NaN}
ImageNonFinite ==
    {img \in [1..NPix -> NonFiniteSampleValues] :
        \A p \in 2..NPix : img[p] \in NonFiniteOtherValues}

InitNonFinite ==
    /\ bits \in UNION {[1..N -> ImageNonFinite] : N \in 0..MaxN}
    /\ bits_in = bits
    /\ average = Unset
    /\ median = Unset
    /\ mad_sigma = Unset
    /\ exclude = Unset
    /\ original_values = Unset
    /\ clip_combine = Unset
    /\ pc = "combine"
    /\ CombineOnly

SpecNonFinite == InitNonFinite /\ [][Next]_vars

\* ------------------------------------------------------------------------
\* find_nearest_dark_exposure, of the notebook that calibrates the flats
\* ------------------------------------------------------------------------
\* tolerance=None
None == [k |-> "none", n |-> 0, d |-> 1]

\* the outcomes of a call
Return(v) == [kind |-> "return", value |-> v]
Raise(e) == [kind |-> "raise", error |-> e]

\* the index of the largest entry
np_argmax(a) ==
    CHOOSE i \in 1..Len(a) :
        /\ \A j \in 1..Len(a) : ~FLt(a[i], a[j])
        /\ \A j \in 1..(i - 1) : FLt(a[j], a[i])

\* np.argmin(a): the index of the first of the smallest entries
np_argmin(a) ==
    CHOOSE i \in 1..Len(a) :
        /\ \A j \in 1..Len(a) : ~FLt(a[j], a[i])
        /\ \A j \in 1..(i - 1) : FLt(a[i], a[j])

\* a test that refuses a difference equal to the tolerance
TooFarNotStrict(diff, tol) == tol # None /\ ~FLt(diff, tol)

\* tolerance is not None and diff > tolerance
TooFar(diff, tol) == tol # None /\ FLt(tol, diff)

\* find_nearest_dark_exposure(image, dark_exposure_times, tolerance), for an
\* image whose header gives the exposure time exptime and the list times
\* that list(dark_exposure_times) produces. np.argmin raises ValueError on
\* an empty array.
find_nearest_dark_exposure(exptime, times, tol) ==
    IF Len(times) = 0
    THEN Raise("ValueError")
    ELSE LET dark_exposures == times
             idx == np_argmin([i \in 1..Len(dark_exposures) |->
                                  FAbs(FSub(dark_exposures[i], exptime))])
             closest_dark_exposure == dark_exposures[idx]
         IN  IF TooFar(FAbs(FSub(exptime, closest_dark_exposure)), tol)
             THEN Raise("RuntimeError")
             ELSE Return(closest_dark_exposure)

\* the default of the parameter tolerance
DefaultTolerance == Fin(1, 2)

\* largest number of dark exposure times passed to the function
MaxDarkTimes == 3
\* the exposure times of the darks and of the images, and the tolerances
DarkTimes == {Fin(7, 1), Fin(8, 1), Fin(70, 1), Fin(300, 1)}
ImageTimes == {Fin(n, 4) : n \in {28, 29, 30, 32, 34, 277}}
Tolerances == {None, Fin(0, 1), DefaultTolerance, Fin(1, 1)}

\* the lists of length n over the set S
Lists(n, S) == [1..n -> S]

\* a call of the function with any image, any list of dark exposure times
\* and any tolerance
InitFind ==
    /\ FindOnly
    /\ image \in ImageTimes
    /\ dark_exposure_times \in UNION {Lists(n, DarkTimes) : n \in 0..MaxDarkTimes}
    /\ tolerance \in Tolerances
    /\ result = Unset

FindNearestDarkExposure ==
    /\ result = Unset
    /\ result' = find_nearest_dark_exposure(image, dark_exposure_times, tolerance)
    /\ UNCHANGED <<image, dark_exposure_times, tolerance>>
    /\ UNCHANGED notFindVars

NextFind == FindNearestDarkExposure

SpecFind == InitFind /\ [][NextFind]_vars

\* ------------------------------------------------------------------------
\* Example 1: no scaling of dark frames
\* ------------------------------------------------------------------------
\* the number of combined darks the check cell expects
ExpectedDarkCount == 3
\* expected_exposure_times = set([7, 70, 300])
expected_exposure_times == {Fin(7, 1), Fin(70, 1), Fin(300, 1)}

\* largest number of combined dark files and of raw flats on disk
MaxDarkFiles == 4
MaxFlats == 2
\* the exposure times of the raw flats
FlatTimes == {Fin(n, 4) : n \in {28, 30, 32, 33, 281}}

\* the first column of the overscan, [:, 2055:], and the number of columns
\* kept by trimming, [:, :2048]
OverscanStart == 2055
TrimColumns == 2048

\* an image: the exposure time of its header, whether its overscan columns
\* have been trimmed off, and the steps applied to its data
CCDData(exptime) == [exptime |-> exptime, trimmed |-> FALSE, data |-> <<>>]

\* ccdp.subtract_overscan(c, overscan=c[:, start:], median=True): the
\* overscan is taken from the image as it is when the call is made
subtract_overscan(c, start) ==
    [c EXCEPT !.data = Append(@, <<"subtract_overscan", start, c.trimmed>>)]

\* ccdp.trim_image(c[:, :columns])
trim_image(c, columns) ==
    [c EXCEPT !.trimmed = TRUE, !.data = Append(@, <<"trim_image", columns>>)]

\* ccdp.subtract_bias(c, bias)
subtract_bias(c, bias) == [c EXCEPT !.data = Append(@, <<"subtract_bias">>)]

\* ccdp.subtract_dark(c, dark, ..., scale=scale)
subtract_dark(c, dark, scale) ==
    [c EXCEPT !.data = Append(@, <<"subtract_dark", dark, scale>>)]

\* the orders in which list() can enumerate the set S
ListsOf(S) ==
    {l \in [1..Cardinality(S) -> S] :
        \A i, j \in 1..Cardinality(S) : i # j => l[i] # l[j]}

\* The state in which the cells of Example 1 start: the reduced folder holds
\* any combined darks and the raw folder any flats.
InitExample1 ==
    /\ FlatsOnly
    /\ Example2Idle
    /\ combined_dark_files
           \in UNION {Lists(n, DarkTimes) : n \in 0..MaxDarkFiles}
    /\ flat_files \in UNION {Lists(n, FlatTimes) : n \in 0..MaxFlats}
    /\ actual_exposure_times = Unset
    /\ a_flat = Unset
    /\ a_flat_reduced = Unset
    /\ ccd = Unset
    /\ file_name = 0
    /\ closest_dark = Unset
    /\ reduced_files = {}
    /\ cell = "check"
    /\ raised = "none"

Running(c) == cell = c /\ raised = "none"

\* a check that tests the exposure times but not the number of files
CheckFilesTimesOnly ==
    /\ Running("check")
    /\ LET n_combined_dark == Len(combined_dark_files)
           actual == {combined_dark_files[i] : i \in 1..n_combined_dark}
       IN  /\ actual_exposure_times' = actual
           /\ IF expected_exposure_times \ actual # {}
              THEN raised' = "RuntimeError" /\ UNCHANGED cell
              ELSE cell' = "a_flat" /\ UNCHANGED raised
    /\ UNCHANGED <<combined_dark_files, flat_files, a_flat, a_flat_reduced,
                   ccd, file_name, closest_dark, reduced_files>>
    /\ UNCHANGED notExample1Vars

\* the cell that checks that the files needed are available
CheckFiles ==
    /\ Running("check")
    /\ LET n_combined_dark == Len(combined_dark_files)
           actual == {combined_dark_files[i] : i \in 1..n_combined_dark}
       IN  IF n_combined_dark < ExpectedDarkCount
                  \/ n_combined_dark > ExpectedDarkCount
           THEN /\ raised' = "RuntimeError"
                /\ UNCHANGED <<actual_exposure_times, cell>>
           ELSE /\ actual_exposure_times' = actual
                /\ IF expected_exposure_times \ actual # {}
                   THEN raised' = "RuntimeError" /\ UNCHANGED cell
                   ELSE cell' = "a_flat" /\ UNCHANGED raised
    /\ UNCHANGED <<combined_dark_files, flat_files, a_flat, a_flat_reduced,
                   ccd, file_name, closest_dark, reduced_files>>
    /\ UNCHANGED notExample1Vars

\* a_flat = CCDData.read(ifc_raw.files_filtered(...)[0], unit='adu')
ReadAFlat ==
    /\ Running("a_flat")
    /\ IF Len(flat_files) = 0
       THEN raised' = "IndexError" /\ UNCHANGED <<a_flat, cell>>
       ELSE /\ a_flat' = CCDData(flat_files[1])
            /\ cell' = "a_flat_overscan"
            /\ UNCHANGED raised
    /\ UNCHANGED <<combined_dark_files, flat_files, actual_exposure_times,
                   a_flat_reduced, ccd, file_name, closest_dark,
                   reduced_files>>
    /\ UNCHANGED notExample1Vars

\* a_flat_reduced = ccdp.subtract_overscan(a_flat, ...)
\* a_flat_reduced = ccdp.trim_image(a_flat_reduced[:, :2048])
OverscanTrimAFlat ==
    /\ Running("a_flat_overscan")
    /\ a_flat_reduced' =
           trim_image(subtract_overscan(a_flat, OverscanStart), TrimColumns)
    /\ cell' = "a_flat_find"
    /\ UNCHANGED <<combined_dark_files, flat_files, actual_exposure_times,
                   a_flat, ccd, file_name, closest_dark, reduced_files,
                   raised>>
    /\ UNCHANGED notExample1Vars

\* closest_dark = find_nearest_dark_exposure(a_flat_reduced,
\*                                           actual_exposure_times)
FindAFlat ==
    /\ Running("a_flat_find")
    /\ \E times \in ListsOf(actual_exposure_times) :
           LET r == find_nearest_dark_exposure(a_flat_reduced.exptime, times,
                                               DefaultTolerance)
           IN  IF r.kind = "raise"
               THEN raised' = r.error /\ UNCHANGED <<closest_dark, cell>>
               ELSE /\ closest_dark' = r.value
                    /\ cell' = "a_flat_subtract"
                    /\ UNCHANGED raised
    /\ UNCHANGED <<combined_dark_files, flat_files, actual_exposure_times,
                   a_flat, a_flat_reduced, ccd, file_name, reduced_files>>
    /\ UNCHANGED notExample1Vars

\* combined_darks = {ccd.header['exptime']: ccd for ccd in ...}
\* a_flat_reduced = ccdp.subtract_dark(a_flat_reduced,
\*                                     combined_darks[closest_dark], ...)
SubtractAFlat ==
    /\ Running("a_flat_subtract")
    /\ a_flat_reduced' = subtract_dark(a_flat_reduced, closest_dark, FALSE)
    /\ cell' = "for"
    /\ UNCHANGED <<combined_dark_files, flat_files, actual_exposure_times,
                   a_flat, ccd, file_name, closest_dark, reduced_files,
                   raised>>
    /\ UNCHANGED notExample1Vars

\* for ccd, file_name in ifc_raw.ccds(imagetyp='FLATFIELD', ...):
ForFlat ==
    /\ Running("for")
    /\ IF file_name < Len(flat_files)
       THEN /\ file_name' = file_name + 1
            /\ ccd' = CCDData(flat_files[file_name + 1])
            /\ cell' = "subtract_overscan"
       ELSE /\ cell' = "end"
            /\ UNCHANGED <<ccd, file_name>>
    /\ UNCHANGED <<combined_dark_files, flat_files, actual_exposure_times,
                   a_flat, a_flat_reduced, closest_dark, reduced_files,
                   raised>>
    /\ UNCHANGED notExample1Vars

\* a loop body that trims the image before it takes the overscan from it
TrimThenSubtractOverscan ==
    /\ Running("subtract_overscan")
    /\ ccd' = subtract_overscan(trim_image(ccd, TrimColumns), OverscanStart)
    /\ cell' = "find"
    /\ UNCHANGED <<combined_dark_files, flat_files, actual_exposure_times,
                   a_flat, a_flat_reduced, file_name, closest_dark,
                   reduced_files, raised>>
    /\ UNCHANGED notExample1Vars

\* ccd = ccdp.subtract_overscan(ccd, overscan=ccd[:, 2055:], median=True)
SubtractOverscan ==
    /\ Running("subtract_overscan")
    /\ ccd' = subtract_overscan(ccd, OverscanStart)
    /\ cell' = "trim_image"
    /\ UNCHANGED <<combined_dark_files, flat_files, actual_exposure_times,
                   a_flat, a_flat_reduced, file_name, closest_dark,
                   reduced_files, raised>>
    /\ UNCHANGED notExample1Vars

\* ccd = ccdp.trim_image(ccd[:, :2048])
TrimImage ==
    /\ Running("trim_image")
    /\ ccd' = trim_image(ccd, TrimColumns)
    /\ cell' = "find"
    /\ UNCHANGED <<combined_dark_files, flat_files, actual_exposure_times,
                   a_flat, a_flat_reduced, file_name, closest_dark,
                   reduced_files, raised>>
    /\ UNCHANGED notExample1Vars

\* closest_dark = find_nearest_dark_exposure(ccd, actual_exposure_times)
FindDark ==
    /\ Running("find")
    /\ \E times \in ListsOf(actual_exposure_times) :
           LET r == find_nearest_dark_exposure(ccd.exptime, times,
                                               DefaultTolerance)
           IN  IF r.kind = "raise"
               THEN raised' = r.error /\ UNCHANGED <<closest_dark, cell>>
               ELSE /\ closest_dark' = r.value
                    /\ cell' = "subtract_dark"
                    /\ UNCHANGED raised
    /\ UNCHANGED <<combined_dark_files, flat_files, actual_exposure_times,
                   a_flat, a_flat_reduced, ccd, file_name, reduced_files>>
    /\ UNCHANGED notExample1Vars

\* ccd = ccdp.subtract_dark(ccd, combined_darks[closest_dark], ...)
SubtractDark ==
    /\ Running("subtract_dark")
    /\ ccd' = subtract_dark(ccd, closest_dark, FALSE)
    /\ cell' = "write"
    /\ UNCHANGED <<combined_dark_files, flat_files, actual_exposure_times,
                   a_flat, a_flat_reduced, file_name, closest_dark,
                   reduced_files, raised>>
    /\ UNCHANGED notExample1Vars

\* ccd.write(reduced_path / ('flat-' + file_name))
Write ==
    /\ Running("write")
    /\ reduced_files' = reduced_files
           \cup {[name |-> <<"flat-", file_name>>, ccd |-> ccd]}
    /\ cell' = "for"
    /\ UNCHANGED <<combined_dark_files, flat_files, actual_exposure_times,
                   a_flat, a_flat_reduced, ccd, file_name, closest_dark,
                   raised>>
    /\ UNCHANGED notExample1Vars

NextExample1 ==
    \/ CheckFiles
    \/ ReadAFlat
    \/ OverscanTrimAFlat
    \/ FindAFlat
    \/ SubtractAFlat
    \/ ForFlat
    \/ SubtractOverscan
    \/ TrimImage
    \/ FindDark
    \/ SubtractDark
    \/ Write

SpecExample1 == InitExample1 /\ [][NextExample1]_vars

\* ------------------------------------------------------------------------
\* Example 2: dark frames are scaled
\* ------------------------------------------------------------------------
\* n_dark_expected = 1; expected_exposure_times = set([90])
n_dark_expected == 1
expected_exposure_times_2 == {Fin(90, 1)}
\* the number of columns kept by trimming, [:, :4096]
TrimColumns2 == 4096
\* tolerance=100
Tolerance2 == Fin(100, 1)

\* largest number of combined bias files on disk
MaxBiasFiles == 1
\* the exposure times of the combined darks and of the raw flats on disk
DarkTimes2 == {Fin(90, 1), Fin(300, 1)}
FlatTimes2 == {Fin(1, 1), Fin(90, 1), Fin(190, 1), Fin(191, 1)}

\* The state in which the cells of Example 2 start: the reduced folder holds
\* any combined darks and any combined biases, the raw folder any flats.
InitExample2 ==
    /\ FlatsOnly
    /\ combined_dark_files
           \in UNION {Lists(n, DarkTimes2) : n \in 0..MaxDarkFiles}
    /\ flat_files \in UNION {Lists(n, FlatTimes2) : n \in 0..MaxFlats}
    /\ bias_files \in 0..MaxBiasFiles
    /\ combined_bias = Unset
    /\ actual_exposure_times = Unset
    /\ a_flat = Unset
    /\ a_flat_reduced = Unset
    /\ ccd = Unset
    /\ file_name = 0
    /\ closest_dark = Unset
    /\ reduced_files = {}
    /\ cell = "check2"
    /\ raised = "none"

\* the cell that checks that the files needed are available
CheckFiles2 ==
    /\ Running("check2")
    /\ LET n_combined_dark == Len(combined_dark_files)
           actual == {combined_dark_files[i] : i \in 1..n_combined_dark}
       IN  IF n_combined_dark < n_dark_expected
                  \/ n_combined_dark > n_dark_expected
           THEN /\ raised' = "RuntimeError"
                /\ UNCHANGED <<actual_exposure_times, cell>>
           ELSE /\ actual_exposure_times' = actual
                /\ IF expected_exposure_times_2 \ actual # {}
                   THEN raised' = "RuntimeError" /\ UNCHANGED cell
                   ELSE cell' = "a_flat2" /\ UNCHANGED raised
    /\ UNCHANGED <<combined_dark_files, flat_files, a_flat, a_flat_reduced,
                   ccd, file_name, closest_dark, reduced_files>>
    /\ UNCHANGED <<example2Vars, notExample2Vars>>

\* a_flat = CCDData.read(ifc_raw.files_filtered(...)[0], unit='adu')
ReadAFlat2 ==
    /\ Running("a_flat2")
    /\ IF Len(flat_files) = 0
       THEN raised' = "IndexError" /\ UNCHANGED <<a_flat, cell>>
       ELSE /\ a_flat' = CCDData(flat_files[1])
            /\ cell' = "a_flat_trim2"
            /\ UNCHANGED raised
    /\ UNCHANGED <<combined_dark_files, flat_files, actual_exposure_times,
                   a_flat_reduced, ccd, file_name, closest_dark,
                   reduced_files>>
    /\ UNCHANGED <<example2Vars, notExample2Vars>>

\* a_flat_reduced = ccdp.trim_image(a_flat[:, :4096])
TrimAFlat2 ==
    /\ Running("a_flat_trim2")
    /\ a_flat_reduced' = trim_image(a_flat, TrimColumns2)
    /\ cell' = "a_flat_bias2"
    /\ UNCHANGED <<combined_dark_files, flat_files, actual_exposure_times,
                   a_flat, ccd, file_name, closest_dark, reduced_files,
                   raised>>
    /\ UNCHANGED <<example2Vars, notExample2Vars>>

\* combined_bias = list(ifc_reduced.ccds(combined=True, imagetyp='bias'))[0]
\* a_flat_reduced = ccdp.subtract_bias(a_flat_reduced, combined_bias)
SubtractBiasAFlat2 ==
    /\ Running("a_flat_bias2")
    /\ IF bias_files = 0
       THEN /\ raised' = "IndexError"
            /\ UNCHANGED <<combined_bias, a_flat_reduced, cell>>
       ELSE /\ combined_bias' = "combined_bias"
            /\ a_flat_reduced' = subtract_bias(a_flat_reduced, "combined_bias")
            /\ cell' = "a_flat_find2"
            /\ UNCHANGED raised
    /\ UNCHANGED <<combined_dark_files, flat_files, actual_exposure_times,
                   a_flat, ccd, file_name, closest_dark, reduced_files>>
    /\ UNCHANGED <<bias_files, notExample2Vars>>

\* closest_dark = find_nearest_dark_exposure(a_flat_reduced,
\*                                           actual_exposure_times,
\*                                           tolerance=100)
FindAFlat2 ==
    /\ Running("a_flat_find2")
    /\ \E times \in ListsOf(actual_exposure_times) :
           LET r == find_nearest_dark_exposure(a_flat_reduced.exptime, times,
                                               Tolerance2)
           IN  IF r.kind = "raise"
               THEN raised' = r.error /\ UNCHANGED <<closest_dark, cell>>
               ELSE /\ closest_dark' = r.value
                    /\ cell' = "a_flat_subtract2"
                    /\ UNCHANGED raised
    /\ UNCHANGED <<combined_dark_files, flat_files, actual_exposure_times,
                   a_flat, a_flat_reduced, ccd, file_name, reduced_files>>
    /\ UNCHANGED <<example2Vars, notExample2Vars>>

\* combined_darks = {ccd.header['exptime']: ccd for ccd in ...}
\* a_flat_reduced = ccdp.subtract_dark(a_flat_reduced,
\*                                     combined_darks[closest_dark], ...,
\*                                     scale=True)
SubtractAFlat2 ==
    /\ Running("a_flat_subtract2")
    /\ a_flat_reduced' = subtract_dark(a_flat_reduced, closest_dark, TRUE)
    /\ cell' = "for2"
    /\ UNCHANGED <<combined_dark_files, flat_files, actual_exposure_times,
                   a_flat, ccd, file_name, closest_dark, reduced_files,
                   raised>>
    /\ UNCHANGED <<example2Vars, notExample2Vars>>

\* for ccd, file_name in ifc_raw.ccds(imagetyp='FLAT', return_fname=True):
ForFlat2 ==
    /\ Running("for2")
    /\ IF file_name < Len(flat_files)
       THEN /\ file_name' = file_name + 1
            /\ ccd' = CCDData(flat_files[file_name + 1])
            /\ cell' = "trim_image2"
       ELSE /\ cell' = "end2"
            /\ UNCHANGED <<ccd, file_name>>
    /\ UNCHANGED <<combined_dark_files, flat_files, actual_exposure_times,
                   a_flat, a_flat_reduced, closest_dark, reduced_files,
                   raised>>
    /\ UNCHANGED <<example2Vars, notExample2Vars>>

\* ccd = ccdp.trim_image(ccd[:, :4096])
TrimImage2 ==
    /\ Running("trim_image2")
    /\ ccd' = trim_image(ccd, TrimColumns2)
    /\ cell' = "find2"
    /\ UNCHANGED <<combined_dark_files, flat_files, actual_exposure_times,
                   a_flat, a_flat_reduced, file_name, closest_dark,
                   reduced_files, raised>>
    /\ UNCHANGED <<example2Vars, notExample2Vars>>

\* closest_dark = find_nearest_dark_exposure(ccd, actual_exposure_times,
\*                                           tolerance=100)
FindDark2 ==
    /\ Running("find2")
    /\ \E times \in ListsOf(actual_exposure_times) :
           LET r == find_nearest_dark_exposure(ccd.exptime, times, Tolerance2)
           IN  IF r.kind = "raise"
               THEN raised' = r.error /\ UNCHANGED <<closest_dark, cell>>
               ELSE /\ closest_dark' = r.value
                    /\ cell' = "subtract_dark2"
                    /\ UNCHANGED raised
    /\ UNCHANGED <<combined_dark_files, flat_files, actual_exposure_times,
                   a_flat, a_flat_reduced, ccd, file_name, reduced_files>>
    /\ UNCHANGED <<example2Vars, notExample2Vars>>

\* ccd = ccdp.subtract_dark(ccd, combined_darks[closest_dark], ...,
\*                          scale=True)
SubtractDark2 ==
    /\ Running("subtract_dark2")
    /\ ccd' = subtract_dark(ccd, closest_dark, TRUE)
    /\ cell' = "write2"
    /\ UNCHANGED <<combined_dark_files, flat_files, actual_exposure_times,
                   a_flat, a_flat_reduced, file_name, closest_dark,
                   reduced_files, raised>>
    /\ UNCHANGED <<example2Vars, notExample2Vars>>

\* ccd.write(reduced_path / file_name)
Write2 ==
    /\ Running("write2")
    /\ reduced_files' = reduced_files
           \cup {[name |-> <<"", file_name>>, ccd |-> ccd]}
    /\ cell' = "for2"
    /\ UNCHANGED <<combined_dark_files, flat_files, actual_exposure_times,
                   a_flat, a_flat_reduced, ccd, file_name, closest_dark,
                   raised>>
    /\ UNCHANGED <<example2Vars, notExample2Vars>>

NextExample2 ==
    \/ CheckFiles2
    \/ ReadAFlat2
    \/ TrimAFlat2
    \/ SubtractBiasAFlat2
    \/ FindAFlat2
    \/ SubtractAFlat2
    \/ ForFlat2
    \/ TrimImage2
    \/ FindDark2
    \/ SubtractDark2
    \/ Write2

SpecExample2 == InitExample2 /\ [][NextExample2]_vars

\* either example is run, from its first cell
InitExamples == InitExample1 \/ InitExample2
NextExamples == NextExample1 \/ NextExample2
SpecExamples == InitExamples /\ [][NextExamples]_vars

\* ------------------------------------------------------------------------
\* Trimming with a FITS section and with a Python slice
\* ------------------------------------------------------------------------
\* largest number of rows and of columns of the image
MaxRows == 3
MaxCols == 3

\* a bound left out of a FITS section, and one left out of a Python slice
NoBound == 0
NoIndex == -1

\* the parts "lo:hi" and ":" of a FITS section along an axis of length len
FitsParts(len) ==
    {[lo |-> NoBound, hi |-> NoBound]}
        \cup {q \in [lo : 1..len, hi : 1..len] : q.lo <= q.hi}

\* an image of the given shape; each pixel holds a value of its own
BiasImage(rows, cols) ==
    [y \in 1..rows |-> [x \in 1..cols |-> ((y - 1) * cols) + x]]

\* ccdp.trim_image(img, fits_section='[x, y]'): FITS names the column first,
\* counts from one and includes the last index
trim_image_fits(img, sec) ==
    LET xlo == IF sec.x.lo = NoBound THEN 1 ELSE sec.x.lo
        xhi == IF sec.x.hi = NoBound THEN Len(img[1]) ELSE sec.x.hi
        ylo == IF sec.y.lo = NoBound THEN 1 ELSE sec.y.lo
        yhi == IF sec.y.hi = NoBound THEN Len(img) ELSE sec.y.hi
    IN  [j \in 1..((yhi - ylo) + 1) |->
            [i \in 1..((xhi - xlo) + 1) |->
                img[(ylo + j) - 1][(xlo + i) - 1]]]

\* ccdp.trim_image(img[rows, cols]): Python names the row first, counts from
\* zero and leaves out the stop index
trim_image_python(img, sl) ==
    LET r0 == IF sl.rows.start = NoIndex THEN 0 ELSE sl.rows.start
        r1 == IF sl.rows.stop = NoIndex THEN Len(img) ELSE sl.rows.stop
        c0 == IF sl.cols.start = NoIndex THEN 0 ELSE sl.cols.start
        c1 == IF sl.cols.stop = NoIndex THEN Len(img[1]) ELSE sl.cols.stop
    IN  [j \in 1..(r1 - r0) |-> [i \in 1..(c1 - c0) |-> img[r0 + j][c0 + i]]]

\* a conversion that subtracts one but keeps the order of the axes
fits_to_python_same_order(sec) ==
    LET part(q) ==
            [start |-> IF q.lo = NoBound THEN NoIndex ELSE q.lo - 1,
             stop |-> IF q.hi = NoBound THEN NoIndex ELSE q.hi]
    IN  [rows |-> part(sec.x), cols |-> part(sec.y)]

\* "to get Python indexes from FITS, reverse the order and subtract one"
fits_to_python(sec) ==
    LET part(q) ==
            [start |-> IF q.lo = NoBound THEN NoIndex ELSE q.lo - 1,
             stop |-> IF q.hi = NoBound THEN NoIndex ELSE q.hi]
    IN  [rows |-> part(sec.y), cols |-> part(sec.x)]

\* the slice written "more compactly": a start of 0 is left out
compact(sl) ==
    LET part(q) == [q EXCEPT !.start = IF @ = 0 THEN NoIndex ELSE @]
    IN  [rows |-> part(sl.rows), cols |-> part(sl.cols)]

\* an image of any shape and any FITS section that lies within it
InitTrim ==
    /\ TrimOnly
    /\ \E rows \in 1..MaxRows, cols \in 1..MaxCols :
           /\ first_bias = BiasImage(rows, cols)
           /\ fits_section \in [x : FitsParts(cols), y : FitsParts(rows)]
    /\ trimmed_bias_fits = Unset
    /\ trimmed_bias_python = Unset
    /\ allclose = "not run"

\* trimmed_bias_fits = ccdp.trim_image(first_bias, fits_section='[1:4096, :]')
TrimFits ==
    /\ trimmed_bias_fits = Unset
    /\ trimmed_bias_fits' = trim_image_fits(first_bias, fits_section)
    /\ UNCHANGED <<first_bias, fits_section, trimmed_bias_python, allclose>>
    /\ UNCHANGED notTrimVars

\* trimmed_bias_python = ccdp.trim_image(first_bias[:, :4096])
TrimPython ==
    /\ trimmed_bias_fits # Unset
    /\ trimmed_bias_python = Unset
    /\ \E sl \in {fits_to_python(fits_section),
                   compact(fits_to_python(fits_section))} :
           trimmed_bias_python' = trim_image_python(first_bias, sl)
    /\ UNCHANGED <<first_bias, fits_section, trimmed_bias_fits, allclose>>
    /\ UNCHANGED notTrimVars

\* np.testing.assert_allclose(trimmed_bias_python, trimmed_bias_fits)
AssertAllclose ==
    /\ trimmed_bias_python # Unset
    /\ allclose = "not run"
    /\ allclose' = IF trimmed_bias_python = trimmed_bias_fits
                   THEN "passed"
                   ELSE "AssertionError"
    /\ UNCHANGED <<first_bias, fits_section, trimmed_bias_fits,
                   trimmed_bias_python>>
    /\ UNCHANGED notTrimVars

NextTrim == TrimFits \/ TrimPython \/ AssertAllclose

SpecTrim == InitTrim /\ [][NextTrim]_vars

\* ------------------------------------------------------------------------
\* Setting up the random number generator
\* ------------------------------------------------------------------------
\* a Python string, as its characters
PyStr(chars) == [k |-> "str", chars |-> chars]
\* a Python integer
PyInt(n) == [k |-> "int", n |-> n]

\* the values of the decimal digits
DigitValue ==
    [c \in {"0", "1", "2", "3", "4", "5", "6", "7", "8", "9"} |->
        CASE c = "0" -> 0 [] c = "1" -> 1 [] c = "2" -> 2 [] c = "3" -> 3
          [] c = "4" -> 4 [] c = "5" -> 5 [] c = "6" -> 6 [] c = "7" -> 7
          [] c = "8" -> 8 [] c = "9" -> 9]

\* the number written by a sequence of digits
RECURSIVE DigitsValue(_)
DigitsValue(cs) ==
    IF Len(cs) = 0 THEN 0
    ELSE (10 * DigitsValue(SubSeq(cs, 1, Len(cs) - 1))) + DigitValue[cs[Len(cs)]]

\* the environment: GUIDE_RANDOM_SEED is not set, or holds one of these
EnvironValues ==
    {None, PyStr(<<>>), PyStr(<<"0">>), PyStr(<<"7">>), PyStr(<<"4", "2">>),
     PyStr(<<"-", "1">>), PyStr(<<"1", ".", "5">>), PyStr(<<"a">>)}

\* os.getenv(name, default): the value of the variable, default if not set
os_getenv(env, default) == IF env = None THEN default ELSE env

\* int(x): TypeError for None; for a string, the integer it writes (a sign
\* and decimal digits), ValueError when it writes none
py_int(x) ==
    IF x = None THEN Raise("TypeError")
    ELSE LET cs == x.chars
             signed == Len(cs) >= 1 /\ cs[1] \in {"-", "+"}
             ds == IF signed THEN Tail(cs) ELSE cs
         IN  IF Len(ds) >= 1 /\ \A i \in 1..Len(ds) : ds[i] \in DOMAIN DigitValue
             THEN Return(PyInt(IF signed /\ cs[1] = "-"
                               THEN 0 - DigitsValue(ds)
                               ELSE DigitsValue(ds)))
             ELSE Raise("ValueError")

\* np.random.default_rng(s): an unseeded generator for None, a generator
\* seeded with s for a non-negative integer, ValueError for a negative one
default_rng(s) ==
    IF s = None THEN Return([seeded |-> FALSE, seed |-> 0])
    ELSE IF s.n < 0 THEN Raise("ValueError")
    ELSE Return([seeded |-> TRUE, seed |-> s.n])

\* the notebook starts in any environment
InitSeed ==
    /\ SeedOnly
    /\ CombineIdle
    /\ environ \in EnvironValues
    /\ seed = Unset
    /\ noise_rng = Unset
    /\ setup_cell = "ready"

\* seed = os.getenv('GUIDE_RANDOM_SEED', None)
\* noise_rng = np.random.default_rng(int(seed))
SetupNoiseRng ==
    /\ setup_cell = "ready"
    /\ seed' = os_getenv(environ, None)
    /\ LET n == py_int(seed')
           g == default_rng(n.value)
       IN  IF n.kind = "raise"
           THEN setup_cell' = n.error /\ UNCHANGED noise_rng
           ELSE IF g.kind = "raise"
           THEN setup_cell' = g.error /\ UNCHANGED noise_rng
           ELSE setup_cell' = "completed" /\ noise_rng' = g.value
    /\ UNCHANGED environ
    /\ UNCHANGED <<combineVars, notSeedVars>>

\* bits = noise_rng.normal(size=(n_distributions, n_side**2)) + bias_level
NoiseRngNormal ==
    /\ setup_cell = "completed"
    /\ pc = "idle"
    /\ bits' \in Stacks(MaxN)
    /\ bits_in' = bits'
    /\ pc' = "combine"
    /\ UNCHANGED <<average, median, mad_sigma, exclude, original_values,
                   clip_combine>>
    /\ UNCHANGED notCombineVars

NextSeed == SetupNoiseRng \/ NoiseRngNormal \/ Next

SpecSeed == InitSeed /\ [][NextSeed]_vars

\* ------------------------------------------------------------------------
\* The combination carried out on tiles of the image
\* ------------------------------------------------------------------------
\* the partitions of the pixels into disjoint tiles
Partitions ==
    {P \in SUBSET (SUBSET (1..NPix) \ {{}}) :
        /\ UNION P = 1..NPix
        /\ \A S, T \in P : S # T => S \cap T = {}}

\* the columns the stacks of this section are built from: a level, a higher
\* level, a level with an outlier above it or a sample below it, and a level
\* with an outlier and an adjacent sample
TileColumns ==
    {[i \in 1..MaxN |-> 500],
     [i \in 1..MaxN |-> 7913],
     [i \in 1..MaxN |-> IF i = 1 THEN 7913 ELSE 500],
     [i \in 1..MaxN |-> IF i = 1 THEN 0 ELSE 500],
     [i \in 1..MaxN |-> IF i = 1 THEN 7913 ELSE IF i = 2 THEN 501 ELSE 500]}

\* the stacks of MaxN images whose columns are among TileColumns
TileStacks ==
    {[i \in 1..MaxN |-> [p \in 1..NPix |-> Fin(col[p][i], 1)]] :
        col \in [1..NPix -> TileColumns]}

\* a median taken over all the samples of the tile at once
tile_median_flat(b, T) ==
    LET pos == SelectSeq(Positions(b), LAMBDA q : q[2] \in T)
        flat == [j \in 1..Len(pos) |-> b[pos[j][1]][pos[j][2]]]
    IN  [p \in T |-> np_median(flat)]

\* np.average, np.median and mad_std along axis 0, on the columns of tile T
tile_average(b, T) == [p \in T |-> np_average(Col(b, p))]
tile_median(b, T) == [p \in T |-> np_median(Col(b, p))]
tile_mad_std(b, T) == [p \in T |-> mad_std(Col(b, p))]

\* (bits - median) / mad_sigma > 10 on the columns of tile T
tile_exclude(b, med, mad, T) ==
    [i \in 1..Len(b) |->
        [p \in T |-> Excluded(b[i][p], med[p], mad[p], ClipSigma)]]

\* bits[exclude] on the columns of tile T: the masked samples by position
tile_index(b, exc, T) ==
    [q \in {r \in (1..Len(b)) \X T : exc[r[1]][r[2]]} |-> b[q[1]][q[2]]]

\* bits[exclude] = np.nan on the columns of tile T
tile_assign_nan(b, exc, T) ==
    [i \in 1..Len(b) |->
        [p \in 1..NPix |-> IF p \in T /\ exc[i][p] THEN NaN ELSE b[i][p]]]

\* bits[exclude] = original_values on the columns of tile T
tile_assign(b, exc, vals, T) ==
    [i \in 1..Len(b) |->
        [p \in 1..NPix |->
            IF p \in T /\ exc[i][p] THEN vals[<<i, p>>] ELSE b[i][p]]]

\* np.nanmean along axis 0 on the columns of tile T
tile_nanmean(b, T) == [p \in T |-> np_nanmean(Col(b, p))]

\* the names of a task before it runs
NewTask ==
    [pc |-> "combine", average |-> Unset, median |-> Unset,
     mad_sigma |-> Unset, exclude |-> Unset, original_values |-> Unset,
     clip_combine |-> Unset]

\* a stack, a partition of its pixels, and one task for each tile
InitTiles ==
    /\ TilesOnly
    /\ bits \in TileStacks
    /\ bits_in = bits
    /\ average = Unset
    /\ median = Unset
    /\ mad_sigma = Unset
    /\ exclude = Unset
    /\ original_values = Unset
    /\ clip_combine = Unset
    /\ pc = "idle"
    /\ tiles \in Partitions
    /\ task = [T \in tiles |-> NewTask]
    /\ output = Unset

\* names of the stack left alone by a step that does not assign to bits
TileReadOnly ==
    UNCHANGED <<bits, bits_in, average, median, mad_sigma, exclude,
                original_values, clip_combine, pc, tiles, output>>

\* names left alone by a step that assigns to bits
TileWrites ==
    UNCHANGED <<bits_in, average, median, mad_sigma, exclude,
                original_values, clip_combine, pc, tiles, output>>

\* average = np.average(bits, axis=0); median = np.median(bits, axis=0)
TileCombine(T) ==
    /\ task[T].pc = "combine"
    /\ task' = [task EXCEPT ![T].average = tile_average(bits, T),
                            ![T].median = tile_median(bits, T),
                            ![T].pc = "mad_sigma"]
    /\ TileReadOnly
    /\ UNCHANGED notTileVars

\* mad_sigma = mad_std(bits, axis=0)
TileMadSigma(T) ==
    /\ task[T].pc = "mad_sigma"
    /\ task' = [task EXCEPT ![T].mad_sigma = tile_mad_std(bits, T),
                            ![T].pc = "exclude"]
    /\ TileReadOnly
    /\ UNCHANGED notTileVars

\* exclude = (bits - median) / mad_sigma > 10
TileExclude(T) ==
    /\ task[T].pc = "exclude"
    /\ task' = [task EXCEPT
                   ![T].exclude = tile_exclude(bits, task[T].median,
                                               task[T].mad_sigma, T),
                   ![T].pc = "mask"]
    /\ TileReadOnly
    /\ UNCHANGED notTileVars

\* original_values = bits[exclude]; bits[exclude] = np.nan
TileMask(T) ==
    /\ task[T].pc = "mask"
    /\ task' = [task EXCEPT
                   ![T].original_values = tile_index(bits, task[T].exclude, T),
                   ![T].pc = "nanmean"]
    /\ bits' = tile_assign_nan(bits, task[T].exclude, T)
    /\ TileWrites
    /\ UNCHANGED notTileVars

\* clip_combine = np.nanmean(bits, axis=0)
TileNanmean(T) ==
    /\ task[T].pc = "nanmean"
    /\ task' = [task EXCEPT ![T].clip_combine = tile_nanmean(bits, T),
                            ![T].pc = "restore"]
    /\ TileReadOnly
    /\ UNCHANGED notTileVars

\* bits[exclude] = original_values
TileRestore(T) ==
    /\ task[T].pc = "restore"
    /\ task' = [task EXCEPT ![T].pc = "done"]
    /\ bits' = tile_assign(bits, task[T].exclude, task[T].original_values, T)
    /\ TileWrites
    /\ UNCHANGED notTileVars

\* the results of the tiles are gathered into the output array
Gather ==
    /\ output = Unset
    /\ \A T \in tiles : task[T].pc = "done"
    /\ output' = [p \in 1..NPix |->
                      LET T == CHOOSE S \in tiles : p \in S
                      IN  task[T].clip_combine[p]]
    /\ UNCHANGED <<combineVars, tiles, task>>
    /\ UNCHANGED notTileVars

\* the tasks take their steps in any order
NextTiles ==
    \/ \E T \in tiles : TileCombine(T)
    \/ \E T \in tiles : TileMadSigma(T)
    \/ \E T \in tiles : TileExclude(T)
    \/ \E T \in tiles : TileMask(T)
    \/ \E T \in tiles : TileNanmean(T)
    \/ \E T \in tiles : TileRestore(T)
    \/ Gather

SpecTiles == InitTiles /\ [][NextTiles]_vars

\* ------------------------------------------------------------------------
\* Reference definitions, in integer arithmetic on the input samples, that
\* the properties below are stated with
\* ------------------------------------------------------------------------
\* the number of images combined
NImages == Len(bits_in)
Images == 1..NImages
Pixels == 1..NPix

\* the integer samples of pixel p, as they were before the combination
PixelSamples(p) == [i \in Images |-> bits_in[i][p].n]

\* the k-th smallest entry of xs
Kth(xs, k) ==
    CHOOSE v \in {xs[i] : i \in DOMAIN xs} :
        /\ Cardinality({i \in DOMAIN xs : xs[i] < v}) < k
        /\ Cardinality({i \in DOMAIN xs : xs[i] <= v}) >= k

\* twice the median of xs
TwiceMedian(xs) ==
    IF Len(xs) % 2 = 1
    THEN 2 * Kth(xs, (Len(xs) + 1) \div 2)
    ELSE Kth(xs, Len(xs) \div 2) + Kth(xs, (Len(xs) \div 2) + 1)

\* four times the median absolute deviation of xs, m2 being twice its median
FourMAD(xs, m2) ==
    TwiceMedian([i \in DOMAIN xs |-> Abs(2 * xs[i] - m2)])

\* x - median > ClipSigma * 1.4826 * MAD, for twice the median m2 and four
\* times the MAD mad4
FarAbove(x, m2, mad4) ==
    2 * (2 * x - m2) * MadScaleDen > ClipSigma * MadScaleNum * mad4

\* |x - median| > ClipSigma * 1.4826 * MAD
FarFrom(x, m2, mad4) ==
    2 * Abs(2 * x - m2) * MadScaleDen > ClipSigma * MadScaleNum * mad4

\* the sum of the entries of xs whose index is in S
RECURSIVE SumOver(_, _)
SumOver(xs, S) ==
    IF S = {} THEN 0
    ELSE LET i == CHOOSE j \in S : TRUE
         IN  xs[i] + SumOver(xs, S \ {i})

\* the images whose sample at pixel p is kept, and the mean over a set S
Kept(p) == {i \in Images : ~exclude[i][p]}
MeanOver(p, S) == Fin(SumOver(PixelSamples(p), S), Cardinality(S))

\* a value of the model in units of 1/(2 * MadScaleDen)
Units(v) == v.n * ((2 * MadScaleDen) \div v.d)

\* thresholds below, at and above the one the notebook uses
ClipSigmas == {1, ClipSigma, 10 * ClipSigma}

\* the sample of image i at pixel p would be rejected with threshold c
RejectedAt(i, p, c) == Excluded(bits_in[i][p], median[p], mad_sigma[p], c)

MaskKnown == pc \in {"clip_combine", "done"}
Done == pc = "done"

\* pixel p holds the same value in every image but image i, where it is larger
OneRaised(p, i) ==
    /\ NImages >= 3
    /\ \A j, k \in Images \ {i} : bits_in[j][p] = bits_in[k][p]
    /\ \A j \in Images \ {i} : bits_in[i][p].n > bits_in[j][p].n

\* ------------------------------------------------------------------------
\* Properties
\* ------------------------------------------------------------------------

\* C1: in a stack of at least three images that are constant and equal at a
\* pixel, except for one image whose sample there is raised, the raised
\* sample is rejected and the combined value is the constant.
C1_OutlierRejected ==
    Done => \A p \in Pixels : \A i \in Images :
        OneRaised(p, i) =>
            /\ exclude[i][p]
            /\ \A j \in Images \ {i} : clip_combine[p] = bits_in[j][p]

C1_Witness ==
    /\ Done
    /\ \E p \in Pixels : \E i \in Images :
        OneRaised(p, i) /\ bits_in[i][p].n = 7913 /\ clip_combine[p].n = 500

\* C2 as stated: where mad_sigma is zero no sample is rejected and the output
\* is the plain mean of all the samples.
C2_NoRejectionAtZeroScale ==
    Done => \A p \in Pixels :
        (NImages >= 1 /\ mad_sigma[p] = Fin(0, 1)) =>
            /\ \A i \in Images : ~exclude[i][p]
            /\ clip_combine[p] = MeanOver(p, Images)

\* C2, amended: where mad_sigma is zero the samples rejected are exactly
\* those strictly above the median (none when all samples are equal),
\* whatever the threshold, and the output is the mean of the samples that are
\* not above the median.
C2_ZeroScaleRejectsAboveMedian ==
    Done => \A p \in Pixels :
        (NImages >= 1 /\ mad_sigma[p] = Fin(0, 1)) =>
            LET xs == PixelSamples(p)
                m2 == TwiceMedian(xs)
            IN  /\ \A i \in Images : exclude[i][p] <=> 2 * xs[i] > m2
                /\ \A i \in Images : \A c \in ClipSigmas :
                       RejectedAt(i, p, c) <=> 2 * xs[i] > m2
                /\ clip_combine[p] =
                       MeanOver(p, {i \in Images : 2 * xs[i] <= m2})

C2_Witness ==
    /\ Done
    /\ \E p \in Pixels :
        /\ mad_sigma[p] = Fin(0, 1)
        /\ \E i \in Images : exclude[i][p]
        /\ \E i \in Images : bits_in[i][p] = median[p] /\ ~exclude[i][p]

\* C3: for a stack of at least one image, every pixel of the result is a
\* finite number, also where samples were replaced by NaN during the mean;
\* with any threshold of ClipSigmas some sample of every pixel is left to
\* average.
C3_ResultFinite ==
    (Done /\ NImages >= 1) => \A p \in Pixels :
        /\ IsFinite(clip_combine[p])
        /\ \A c \in ClipSigmas : \E i \in Images : ~RejectedAt(i, p, c)

C3_Witness ==
    /\ Done
    /\ \E p \in Pixels : \E i \in Images :
        exclude[i][p] /\ IsFinite(clip_combine[p])

\* C5: when the clipped average has been computed, every element of bits
\* holds the value it held before, the rejected samples included.
C5_InputRestored == Done => bits = bits_in

C5_Witness ==
    /\ Done
    /\ Len(original_values) >= 2
    /\ bits = bits_in

C6_EmptyStackFailsFast ==
    NImages = 0 =>
        /\ pc = "combine"
        /\ median = Unset
        /\ mad_sigma = Unset
        /\ clip_combine = Unset

C9_RejectionRule ==
    MaskKnown => \A p \in Pixels :
        (NImages >= 1 /\ IsFinite(mad_sigma[p]) /\ mad_sigma[p].n > 0) =>
            \A i \in Images :
                /\ exclude[i][p] <=>
                     Units(bits_in[i][p]) - Units(median[p])
                         > ClipSigma * Units(mad_sigma[p])
                /\ (Units(bits_in[i][p]) - Units(median[p])
                         = ClipSigma * Units(mad_sigma[p])) => ~exclude[i][p]

C9_Witness ==
    /\ MaskKnown
    /\ \E p \in Pixels : \E i \in Images :
        /\ mad_sigma[p].n > 0
        /\ Units(bits_in[i][p]) - Units(median[p])
               = ClipSigma * Units(mad_sigma[p])
        /\ ~exclude[i][p]

\* C10: at every pixel where at least one sample is kept, the result is the
\* sum of the kept samples divided by their number.
C10_MeanOfKept ==
    Done => \A p \in Pixels :
        Kept(p) # {} => clip_combine[p] = MeanOver(p, Kept(p))

C10_Witness ==
    /\ Done
    /\ \E p \in Pixels :
        /\ Kept(p) # {}
        /\ Kept(p) # Images
        /\ clip_combine[p] = MeanOver(p, Kept(p))
        /\ clip_combine[p] # MeanOver(p, Images)

\* at every pixel of a stack of at least one image some sample is kept: the
\* case of C4, every sample of a pixel rejected, does not arise
SomeSampleKept ==
    (MaskKnown /\ NImages >= 1) => \A p \in Pixels : Kept(p) # {}

\* the stack holds the same image N times
UniformStack == \A i, j \in Images : bits_in[i] = bits_in[j]

\* mad_sigma has just been computed, and the mask has just been computed
MadKnown == pc = "exclude"
MaskComputed == pc = "clip_combine"

\* C11: for any two thresholds c1 <= c2, every sample that is rejected with
\* threshold c2 is rejected with threshold c1 as well. The thresholds are
\* those of ClipSigmas, 1 <= ClipSigma <= 10 * ClipSigma.
C11_MonotonicRejection ==
    (MaskComputed /\ NImages >= 1) => \A p \in Pixels : \A i \in Images :
        LET low == RejectedAt(i, p, 1)
            mid == RejectedAt(i, p, ClipSigma)
            high == RejectedAt(i, p, 10 * ClipSigma)
        IN  (high => mid) /\ (mid => low)

C11_Witness ==
    /\ MaskComputed
    /\ \E p, q \in Pixels : \E i, j \in Images :
        /\ RejectedAt(i, p, 1) /\ ~RejectedAt(i, p, ClipSigma)
        /\ RejectedAt(j, q, 1) /\ RejectedAt(j, q, ClipSigma)
        /\ exclude[j][q] /\ ~exclude[i][p]

\* C12: when the N >= 1 images of the stack are identical, the result is that
\* image and no sample is rejected, whatever the threshold.
C12_UniformStackIdentity ==
    (Done /\ NImages >= 1 /\ UniformStack) =>
        /\ \A p \in Pixels : clip_combine[p] = bits_in[1][p]
        /\ \A p \in Pixels : \A i \in Images :
            /\ ~exclude[i][p]
            /\ \A c \in ClipSigmas : ~RejectedAt(i, p, c)

C12_Witness ==
    /\ Done
    /\ NImages = MaxN
    /\ UniformStack
    /\ bits_in[1][1] # bits_in[1][NPix]
    /\ \A p \in Pixels : clip_combine[p] = bits_in[1][p]

\* C13: at a pixel where no sample lies more than ClipSigma times the scale
\* above the median, the result is the plain average of all the samples.
C13_NoOverRejection ==
    (Done /\ NImages >= 1) => \A p \in Pixels :
        LET xs == PixelSamples(p)
            m2 == TwiceMedian(xs)
            mad4 == FourMAD(xs, m2)
        IN  (\A i \in Images : ~FarAbove(xs[i], m2, mad4)) =>
                /\ clip_combine[p] = MeanOver(p, Images)
                /\ clip_combine[p] = average[p]

C13_Witness ==
    /\ Done
    /\ NImages >= 3
    /\ \A p \in Pixels :
        LET xs == PixelSamples(p)
            m2 == TwiceMedian(xs)
            mad4 == FourMAD(xs, m2)
        IN  \A i \in Images : ~FarAbove(xs[i], m2, mad4)
    /\ \E p \in Pixels : \E i, j \in Images :
        /\ FarFrom(bits_in[i][p].n, TwiceMedian(PixelSamples(p)),
                   FourMAD(PixelSamples(p), TwiceMedian(PixelSamples(p))))
        /\ bits_in[j][p].n > bits_in[i][p].n
        /\ mad_sigma[p].n > 0
    /\ clip_combine = average

\* C14: the result of combining N >= 1 images has the shape of one image,
\* one value for each pixel position.
C14_ShapePreserved ==
    (Done /\ NImages >= 1) =>
        /\ DOMAIN clip_combine = Pixels
        /\ \A i \in Images : DOMAIN clip_combine = DOMAIN bits_in[i]

C14_Witness ==
    /\ Done
    /\ NImages > NPix
    /\ DOMAIN clip_combine = DOMAIN bits_in[1]

FiniteSamples(p) == SelectSeq(Col(bits_in, p), IsFinite)

\* C17 as stated: a sample that is NaN or Inf is left out of the median, of
\* the scale and of the average of its pixel, and the finite samples are
\* rejected or kept as they would be without it. (No cell raises, so the
\* alternative of an explicit failure never applies.)
C17_NonFiniteExcluded ==
    Done => \A p \in Pixels :
        LET f == FiniteSamples(p)
            m == np_median(f)
            s == mad_std(f)
            kept == SelectSeq(f, LAMBDA x : ~Excluded(x, m, s, ClipSigma))
        IN  Len(f) >= 1 =>
                /\ median[p] = m
                /\ mad_sigma[p] = s
                /\ \A i \in Images :
                       IsFinite(bits_in[i][p]) =>
                           exclude[i][p]
                               = Excluded(bits_in[i][p], m, s, ClipSigma)
                /\ clip_combine[p] = np_average(kept)

\* an exposure time in quarters of a second
Quarters(v) == v.n * (4 \div v.d)

\* the distance, in quarters of a second, from the image's exposure time to
\* the dark exposure time d
Distance(d) == Abs(Quarters(d) - Quarters(image))

\* the distance to the closest of the dark exposure times
ClosestDistance ==
    CHOOSE q \in {Distance(dark_exposure_times[i]) :
                     i \in 1..Len(dark_exposure_times)} :
        \A j \in 1..Len(dark_exposure_times) :
            q <= Distance(dark_exposure_times[j])

Called == result # Unset
Returned == Called /\ result.kind = "return"
Raised == Called /\ result.kind = "raise"

\* C18: a value returned by find_nearest_dark_exposure is one of the dark
\* exposure times, and none of them is closer to the image's exposure time.
C18_NearestReturned ==
    Returned =>
        /\ \E i \in 1..Len(dark_exposure_times) :
               dark_exposure_times[i] = result.value
        /\ \A j \in 1..Len(dark_exposure_times) :
               Distance(result.value) <= Distance(dark_exposure_times[j])

C18_Witness ==
    /\ Returned
    /\ Len(dark_exposure_times) = MaxDarkTimes
    /\ result.value # dark_exposure_times[1]
    /\ \E j \in 1..Len(dark_exposure_times) :
           Distance(result.value) < Distance(dark_exposure_times[j])
    /\ Distance(result.value) > 0

\* C19: for a list of dark exposure times that is not empty, the call raises
\* exactly when tolerance is not None and the closest dark exposure time is
\* strictly farther than tolerance from the image's exposure time.
C19_RaisesIffTooFar ==
    (Called /\ Len(dark_exposure_times) >= 1) =>
        /\ Raised <=> (tolerance # None
                          /\ ClosestDistance > Quarters(tolerance))
        /\ tolerance = None => Returned
        /\ (tolerance # None /\ ClosestDistance = Quarters(tolerance))
               => Returned

C19_Witness ==
    /\ Returned
    /\ tolerance # None
    /\ ClosestDistance > 0
    /\ ClosestDistance = Quarters(tolerance)

\* the distance, in quarters of a second, from the exposure time of the
\* image c to the closest of the combined darks of Example 1
DistanceToDarks(c) ==
    CHOOSE q \in {Abs(Quarters(d) - Quarters(c.exptime)) :
                     d \in actual_exposure_times} :
        \A d \in actual_exposure_times :
            q <= Abs(Quarters(d) - Quarters(c.exptime))

\* C20 as stated: in Example 1 the choice of the dark, for the first flat and
\* for each flat of the loop, raises only when the closest combined dark is
\* more than 1 second from the flat; a flat within 1 second is accepted.
C20_ToleranceOneSecond ==
    /\ (cell = "a_flat_find" /\ raised # "none")
           => DistanceToDarks(a_flat_reduced) > Quarters(Fin(1, 1))
    /\ (cell = "find" /\ raised # "none")
           => DistanceToDarks(ccd) > Quarters(Fin(1, 1))

\* the positions, in the steps applied to the image c, of the step named
\* name
StepsNamed(c, name) == {k \in 1..Len(c.data) : c.data[k][1] = name}

\* in the steps applied to c, a subtraction of the bias comes before every
\* subtraction of the dark
BiasBeforeDark(c) ==
    \A d \in StepsNamed(c, "subtract_dark") :
        \E b \in StepsNamed(c, "subtract_bias") : b < d

\* C21 as stated: in Example 2 the bias is subtracted from every flat, the
\* sample flat and each flat of the loop, before the scaled dark is, and a
\* flat is written only after both subtractions.
C21_BiasBeforeScaledDark ==
    /\ (cell \in {"for2", "end2"} /\ a_flat_reduced # Unset)
           => BiasBeforeDark(a_flat_reduced)
    /\ cell = "write2" => BiasBeforeDark(ccd)
    /\ cell \in {"for2", "end2"} =>
           \A f \in reduced_files :
               /\ StepsNamed(f.ccd, "subtract_bias") # {}
               /\ StepsNamed(f.ccd, "subtract_dark") # {}
               /\ BiasBeforeDark(f.ccd)

\* the example that is run, and what its check cell expects
InExample2 == cell \in {"check2", "a_flat2", "a_flat_trim2", "a_flat_bias2",
                        "a_flat_find2", "a_flat_subtract2", "for2",
                        "trim_image2", "find2", "subtract_dark2", "write2",
                        "end2"}
CheckCell == IF InExample2 THEN "check2" ELSE "check"
ExpectedCount == IF InExample2 THEN n_dark_expected ELSE ExpectedDarkCount
ExpectedTimes ==
    IF InExample2 THEN expected_exposure_times_2 ELSE expected_exposure_times

\* the combined darks on disk are those the example expects
DarksAsExpected ==
    /\ Len(combined_dark_files) = ExpectedCount
    /\ {combined_dark_files[i] : i \in 1..Len(combined_dark_files)}
           = ExpectedTimes

\* no flat has been read, calibrated or written
NothingCalibrated ==
    /\ a_flat = Unset
    /\ a_flat_reduced = Unset
    /\ ccd = Unset
    /\ reduced_files = {}

\* C22: once the check cell has completed without raising, the number of
\* combined darks and the set of their exposure times are the expected
\* ones; in every other case the cell raises RuntimeError, the notebook
\* stays at the check cell and no flat is calibrated.
C22_CheckCell ==
    /\ cell # CheckCell => DarksAsExpected
    /\ (cell = CheckCell /\ raised # "none") =>
           ~DarksAsExpected /\ raised = "RuntimeError"
    /\ ~DarksAsExpected => (cell = CheckCell /\ NothingCalibrated)

C22_Witness ==
    /\ cell = "end"
    /\ DarksAsExpected
    /\ Cardinality(reduced_files) = MaxFlats

\* the pixels of first_bias that the FITS section [x1:x2, y1:y2] names:
\* column x and row y, counted from one, both ends included
FitsX == IF fits_section.x.lo = NoBound
         THEN 1..Len(first_bias[1])
         ELSE fits_section.x.lo..fits_section.x.hi
FitsY == IF fits_section.y.lo = NoBound
         THEN 1..Len(first_bias)
         ELSE fits_section.y.lo..fits_section.y.hi
PixelsOf(img) == {img[y][x] : y \in 1..Len(img), x \in 1..Len(img[1])}

\* C23: the FITS section [x1:x2, y1:y2] selects exactly the pixels of the
\* Python slice [y1-1:y2, x1-1:x2]: the image trimmed with the slice is
\* the image trimmed with the section, it holds the pixels of columns
\* x1..x2 and rows y1..y2 and no others, and assert_allclose passes; so
\* '[1:K, :]' and [:, :K] give the same image
C23_FitsPythonAgree ==
    /\ trimmed_bias_python # Unset =>
           /\ trimmed_bias_python = trimmed_bias_fits
           /\ Len(trimmed_bias_python) = Cardinality(FitsY)
           /\ Len(trimmed_bias_python[1]) = Cardinality(FitsX)
           /\ PixelsOf(trimmed_bias_python) =
                  {first_bias[y][x] : y \in FitsY, x \in FitsX}
    /\ allclose # "AssertionError"

\* the section of the notebook, '[1:K, :]' with K short of the image's
\* width on an image of several rows, has been trimmed both ways and compared
C23_Witness ==
    /\ allclose = "passed"
    /\ fits_section.x.lo = 1
    /\ fits_section.x.hi < Len(first_bias[1])
    /\ fits_section.y.lo = NoBound
    /\ Len(first_bias) > 1
    /\ Len(trimmed_bias_python[1]) = fits_section.x.hi

\* the samples of pixel p that the mask keeps, in the order of the images
KeptSamples(p) ==
    LET kept == SelectSeq([i \in Images |-> i], LAMBDA i : ~exclude[i][p])
    IN  [j \in 1..Len(kept) |-> PixelSamples(p)[kept[j]]]

\* C24: within one combination the median and the scale are each computed
\* in one step from the whole stack as it was given, the mask is computed
\* once, in one step, from that median and that scale, and the average of
\* the kept samples is computed only after that; the step that masks the
\* samples and every step after it leave the median, the scale and the mask
\* as they are.
C24_SinglePass ==
    [][/\ median' # median =>
              /\ pc = "combine"
              /\ bits = bits_in
              /\ NImages >= 1 => \A p \in Pixels :
                     median'[p] = Fin(TwiceMedian(PixelSamples(p)), 2)
       /\ mad_sigma' # mad_sigma =>
              /\ pc = "mad_sigma"
              /\ bits = bits_in
              /\ NImages >= 1 => \A p \in Pixels :
                     LET xs == PixelSamples(p)
                     IN  mad_sigma'[p] =
                             Fin(FourMAD(xs, TwiceMedian(xs)) * MadScaleNum,
                                 4 * MadScaleDen)
       /\ exclude' # exclude =>
              /\ pc = "exclude"
              /\ exclude = Unset
              /\ bits = bits_in
              /\ clip_combine = Unset
              /\ \A i \in Images : \A p \in Pixels :
                     exclude'[i][p] = RejectedAt(i, p, ClipSigma)
       /\ clip_combine' # clip_combine =>
              /\ pc = "clip_combine"
              /\ NImages >= 1 => Len(exclude) = NImages
       /\ pc \in {"clip_combine", "done"} =>
              UNCHANGED <<median, mad_sigma, exclude>>]_vars

\* a combination is done in which a sample was masked and the median of the
\* samples left differs from the median of the whole stack
C24_Witness ==
    /\ Done
    /\ \E p \in Pixels :
        /\ Kept(p) # Images
        /\ Kept(p) # {}
        /\ TwiceMedian(KeptSamples(p)) # TwiceMedian(PixelSamples(p))
        /\ median[p] = Fin(TwiceMedian(PixelSamples(p)), 2)

\* the steps applied to the image c are, in this order: the overscan taken
\* from column OverscanStart on of the untrimmed image, the trimming to
\* TrimColumns columns, and the subtraction of the combined dark nearest to
\* c in exposure time
LoopOrder(c) ==
    /\ Len(c.data) = 3
    /\ c.data[1] = <<"subtract_overscan", OverscanStart, FALSE>>
    /\ c.data[2] = <<"trim_image", TrimColumns>>
    /\ c.data[3][1] = "subtract_dark"
    /\ c.data[3][2] \in actual_exposure_times
    /\ Abs(Quarters(c.data[3][2]) - Quarters(c.exptime)) = DistanceToDarks(c)

\* the files written for the k-th raw flat
OutputsOf(k) == {f \in reduced_files : f.name = <<"flat-", k>>}

\* every file written, and the image about to be written, went through the
\* steps in order, and every file written is named after a raw flat
WrittenInOrder ==
    /\ cell = "write" => LoopOrder(ccd)
    /\ \A f \in reduced_files :
           /\ LoopOrder(f.ccd)
           /\ \E k \in 1..Len(flat_files) :
                  f.name = <<"flat-", k>> /\ f.ccd.exptime = flat_files[k]

\* the folder loop of Example 1 has stopped, at its end or by an exception
LoopStopped ==
    \/ cell = "end"
    \/ /\ cell \in {"subtract_overscan", "trim_image", "find",
                    "subtract_dark", "write"}
       /\ raised # "none"

SeedIsNatural ==
    /\ environ # None
    /\ Len(environ.chars) >= 1
    /\ \A i \in 1..Len(environ.chars) : environ.chars[i] \in DOMAIN DigitValue

\* the cell that sets up the generator has run, to its end or to an exception
SetupRan == setup_cell \notin {"idle", "ready"}

\* C27 as stated: the cell that sets up the noise generator completes both
\* when GUIDE_RANDOM_SEED holds an integer, the generator then being seeded
\* with that integer, and when it is not set, the seed then being None and
\* the generator unseeded.
C27_SeedOptional ==
    /\ (SetupRan /\ SeedIsNatural) =>
           /\ setup_cell = "completed"
           /\ noise_rng = [seeded |-> TRUE, seed |-> DigitsValue(environ.chars)]
    /\ (SetupRan /\ environ = None) =>
           /\ setup_cell = "completed"
           /\ seed = None
           /\ noise_rng = [seeded |-> FALSE, seed |-> 0]

\* the result of the four cells on the whole stack as it was given
BatchOutput ==
    LET med == [p \in Pixels |-> np_median(Col(bits_in, p))]
        mad == [p \in Pixels |-> mad_std(Col(bits_in, p))]
        exc == [i \in Images |->
                   [p \in Pixels |->
                       Excluded(bits_in[i][p], med[p], mad[p], ClipSigma)]]
    IN  nanmean_axis0(BoolAssignScalar(bits_in, exc, NaN))

====
